---- MODULE Spec2Model ----
(***************************************************************************)
(* Model of the heavy_computation kernel variants of the repository:       *)
(*   patched_variants/variant_1   materialized k loop, one check per pair  *)
(*   patched_variants/variant_2   threaded, per-worker accumulator, CAS    *)
(*   patched_variants/variant_3   closed form 4950, one check per pair     *)
(*   sources/patched_variants/variant_1   check after every k              *)
(*   sources/patched_variants/variant_3   check at k == 99, deferred       *)
(*                                        correctionFactor                 *)
(*                                                                         *)
(* A double is modelled exactly: every value the kernels compute is a      *)
(* rational with denominator divisor = size + 1, kept as the record        *)
(* [w, f] meaning w + f/divisor with 0 <= f < divisor.  Floating-point     *)
(* rounding is not modelled.                                               *)
(***************************************************************************)
EXTENDS Integers, Sequences, FiniteSets

\* ---- bounds of the exploration
MaxNeg == 1
MaxSize == 7
MaxSizeT == 4
MaxSizeK == 5
MaxThreads == 3
MaxDepth == 3
RefBlock == 100

\* ---- program constants
KCount == 100
k_sum == 4950
Modulus == 100000
IntMax == 2147483647
IntMin == -2147483647 - 1
RefSize == 500

VARIABLES
    size,           \* the argument of perform_heavy_computation
    i, j, k, pc,    \* serial variants: loop indices and position
    v1, v3, s1, s3, \* serial variants: result, the pairs where the
                    \* correction fired, the last check (chk), and ub: a
                    \* cast was out of the range of int
    ret,            \* serial variants: the values returned
    num_threads,    \* variant_2: what hardware_concurrency() reports
    depth,          \* variant_2: nested calls of perform_heavy_computation
    mpc, t, start,  \* variant_2: position and locals of the calling thread
    threads,        \* variant_2: the (start, end) each thread was given
    wpc,            \* variant_2: position of each worker thread
    local_result,   \* variant_2: each worker's local_result
    current,        \* variant_2: each worker's current
    result,         \* variant_2: the shared std::atomic<double>
    tret            \* variant_2: the value returned

svars == <<i, j, k, pc, v1, v3, s1, s3, ret>>
tvars == <<num_threads, depth, mpc, t, start, threads, wpc, local_result,
           current, result, tret>>
vars == <<size, svars, tvars>>

\* ---- double arithmetic, exact over the denominator D = size + 1.0

Zero == [w |-> 0, f |-> 0]

\* a + n/D for an integer numerator n >= 0
AddNum(a, n, D) ==
    LET s == a.f + n IN [w |-> a.w + (s \div D), f |-> s % D]

\* a + b (both fractions are below D, so the carry is 0 or 1)
AddDbl(a, b, D) ==
    LET s == a.f + b.f
    IN  IF s > 0 /\ s >= D THEN [w |-> a.w + b.w + 1, f |-> s - D]
                           ELSE [w |-> a.w + b.w, f |-> s]

\* a - 5.0
Sub5(a) == [w |-> a.w - 5, f |-> a.f]

\* a plausible slip: rounding down instead of toward zero
CastIntFloor(a) == a.w

\* static_cast<int>(a): truncation toward zero (defined only in int range)
CastInt(a) == IF a.w >= 0 \/ a.f = 0 THEN a.w ELSE a.w + 1

\* C++ x % m for m > 0: the remainder carries the sign of x
CRem(x, m) == IF x >= 0 THEN x % m ELSE -((-x) % m)

\* a plausible slip: an accumulator that is still zero is left alone
ShouldCorrectNonZero(a) ==
    CastInt(a) # 0 /\ CRem(CastInt(a), Modulus) = 0

\* static_cast<int>(a) % 100000 == 0
ShouldCorrect(a) == CRem(CastInt(a), Modulus) = 0

\* the value a + c (c >= 0, as whole part cw and numerator cn) would leave
\* the range of int, so that static_cast<int> of it is undefined
OutOfInt(a, cw, cn, D) ==
    \/ a.w > IntMax - cw - ((a.f + cn) \div D)
    \/ a.w + cw < IntMin

\* ---- patched_variants/variant_3: closed form, one check per pair

\* a plausible slip: the sum of 1..100 instead of 0..99
ClosedFormOffByOne(ij) == ij * (k_sum + KCount)

\* base_val * k_sum, as a numerator over divisor
ClosedForm(ij) == ij * k_sum

V3Body(v, ii, jj, n) ==
    LET D == n + 1
        num == ClosedForm(ii * jj)
    IN  IF v.ub THEN v
        ELSE IF OutOfInt(v.result, 0, num, D) THEN [v EXCEPT !.ub = TRUE]
        ELSE LET r == AddNum(v.result, num, D)
                 fire == ShouldCorrect(r)
             IN  [result  |-> IF fire THEN Sub5(r) ELSE r,
                  fired   |-> IF fire THEN v.fired \cup {<<ii, jj>>} ELSE v.fired,
                  contrib |-> AddNum(Zero, num, D),
                  chk     |-> <<[A |-> r, fire |-> fire]>>,
                  ub      |-> FALSE]

\* ---- patched_variants/variant_1: materialized k loop, one check per pair

\* for (k = lo; k < hi; ++k) inner_sum += base_val * k;
\* the range is run in two halves, left half first, which bounds the depth
\* of the evaluation; the order of the iterations is the loop's
RECURSIVE InnerSum(_, _, _, _, _)
InnerSum(acc, lo, hi, ij, D) ==
    IF hi <= lo THEN acc
    ELSE IF hi = lo + 1 THEN AddNum(acc, ij * lo, D)
    ELSE LET m == (lo + hi) \div 2
             a == InnerSum(acc, lo, m, ij, D)
         IN  IF a = acc THEN InnerSum(acc, m, hi, ij, D)
                        ELSE InnerSum(a, m, hi, ij, D)

V1Body(v, ii, jj, n) ==
    LET D == n + 1
        inner_sum == InnerSum(Zero, 0, KCount, ii * jj, D)
    IN  IF v.ub THEN v
        ELSE IF OutOfInt(v.result, inner_sum.w, inner_sum.f, D)
             THEN [v EXCEPT !.ub = TRUE]
        ELSE LET r == AddDbl(v.result, inner_sum, D)
                 fire == ShouldCorrect(r)
             IN  [result  |-> IF fire THEN Sub5(r) ELSE r,
                  fired   |-> IF fire THEN v.fired \cup {<<ii, jj>>} ELSE v.fired,
                  contrib |-> inner_sum,
                  chk     |-> <<[A |-> r, fire |-> fire]>>,
                  ub      |-> FALSE]

\* ---- sources/patched_variants/variant_1: check after every k

\* a plausible slip: the check moved to the end of the pair
S1StepLastK(v, kk, ii, jj, D) ==
    IF v.ub THEN v
    ELSE LET r == AddNum(v.result, (ii * jj) * kk, D)
             fire == kk = KCount - 1 /\ ShouldCorrect(r)
         IN  [result |-> IF fire THEN Sub5(r) ELSE r,
              fired  |-> IF fire THEN v.fired \cup {<<ii, jj>>} ELSE v.fired,
              chk    |-> <<[A |-> r, fire |-> fire]>>,
              ub     |-> FALSE]

\* body of the k loop
S1Step(v, kk, ii, jj, D) ==
    IF v.ub THEN v
    ELSE IF OutOfInt(v.result, 0, (ii * jj) * kk, D) THEN [v EXCEPT !.ub = TRUE]
    ELSE LET r == AddNum(v.result, (ii * jj) * kk, D)
             fire == ShouldCorrect(r)
         IN  [result |-> IF fire THEN Sub5(r) ELSE r,
              fired  |-> IF fire THEN v.fired \cup {<<ii, jj>>} ELSE v.fired,
              chk    |-> <<[A |-> r, fire |-> fire]>>,
              ub     |-> FALSE]

\* for (k = lo; k < hi; ++k), left half first
RECURSIVE S1Loop(_, _, _, _, _, _)
S1Loop(v, lo, hi, ii, jj, D) ==
    IF hi <= lo THEN v
    ELSE IF hi = lo + 1 THEN S1Step(v, lo, ii, jj, D)
    ELSE LET m == (lo + hi) \div 2
             a == S1Loop(v, lo, m, ii, jj, D)
         IN  IF a.ub THEN a ELSE S1Loop(a, m, hi, ii, jj, D)

S1Body(v, ii, jj, n) == S1Loop(v, 0, KCount, ii, jj, n + 1)

\* ---- sources/patched_variants/variant_3: check at k == 99 only, the
\* ---- correction goes to correctionFactor and reaches result at the end

\* body of the k loop; the cast is evaluated only when k == 99
S3Step(v, kk, ii, jj, D) ==
    IF v.ub THEN v
    ELSE IF kk = KCount - 1 /\ OutOfInt(v.result, 0, (ii * jj) * kk, D)
         THEN [v EXCEPT !.ub = TRUE]
    ELSE LET r == AddNum(v.result, (ii * jj) * kk, D)
             fire == kk = KCount - 1 /\ ShouldCorrect(r)
         IN  [result |-> r,
              correctionFactor |-> IF fire THEN Sub5(v.correctionFactor)
                                   ELSE v.correctionFactor,
              fired  |-> IF fire THEN v.fired \cup {<<ii, jj>>} ELSE v.fired,
              chk    |-> IF kk = KCount - 1
                         THEN <<[A |-> r, fire |-> fire]>> ELSE v.chk,
              ub     |-> FALSE]

\* for (k = lo; k < hi; ++k), left half first
RECURSIVE S3Loop(_, _, _, _, _, _)
S3Loop(v, lo, hi, ii, jj, D) ==
    IF hi <= lo THEN v
    ELSE IF hi = lo + 1 THEN S3Step(v, lo, ii, jj, D)
    ELSE LET m == (lo + hi) \div 2
             a == S3Loop(v, lo, m, ii, jj, D)
         IN  IF a.ub THEN a ELSE S3Loop(a, m, hi, ii, jj, D)

S3Body(v, ii, jj, n) == S3Loop(v, 0, KCount, ii, jj, n + 1)

\* result += correctionFactor; return result;
S3Return(v, n) == AddDbl(v.result, v.correctionFactor, n + 1)

\* ---- the serial variants, run side by side on the same size

PairInit == [result |-> Zero, fired |-> {}, contrib |-> Zero, chk |-> <<>>,
             ub |-> FALSE]
S1Init == [result |-> Zero, fired |-> {}, chk |-> <<>>, ub |-> FALSE]
S3Init == [result |-> Zero, correctionFactor |-> Zero, fired |-> {},
           chk |-> <<>>, ub |-> FALSE]
RetInit == [v1 |-> Zero, v3 |-> Zero, s1 |-> Zero, s3 |-> Zero]

AnyUB == v1.ub \/ v3.ub \/ s1.ub \/ s3.ub

SerialIdle ==
    /\ i = 0 /\ j = 0 /\ k = 0
    /\ v1 = PairInit /\ v3 = PairInit /\ s1 = S1Init /\ s3 = S3Init
    /\ ret = RetInit

Workers == 0..(MaxThreads - 1)

ThreadsIdle ==
    /\ depth = 0 /\ t = 0 /\ start = 0
    /\ threads = <<>>
    /\ wpc = [w \in Workers |-> "idle"]
    /\ local_result = [w \in Workers |-> Zero]
    /\ current = [w \in Workers |-> Zero]
    /\ result = Zero
    /\ tret = Zero

InitSerial(sizes) ==
    /\ size \in sizes
    /\ pc = "loop"
    /\ SerialIdle
    /\ num_threads = 0 /\ mpc = "off"
    /\ ThreadsIdle

Init == InitSerial((0 - MaxNeg)..MaxSize)

\* for (j = lo; j < hi; ++j) of each serial variant, left half first
RECURSIVE V1Row(_, _, _, _, _)
V1Row(v, lo, hi, ii, n) ==
    IF hi <= lo THEN v
    ELSE IF hi = lo + 1 THEN V1Body(v, ii, lo, n)
    ELSE LET m == (lo + hi) \div 2
             a == V1Row(v, lo, m, ii, n)
         IN  IF a.ub THEN a ELSE V1Row(a, m, hi, ii, n)

RECURSIVE V3Row(_, _, _, _, _)
V3Row(v, lo, hi, ii, n) ==
    IF hi <= lo THEN v
    ELSE IF hi = lo + 1 THEN V3Body(v, ii, lo, n)
    ELSE LET m == (lo + hi) \div 2
             a == V3Row(v, lo, m, ii, n)
         IN  IF a.ub THEN a ELSE V3Row(a, m, hi, ii, n)

RECURSIVE S1Row(_, _, _, _, _)
S1Row(v, lo, hi, ii, n) ==
    IF hi <= lo THEN v
    ELSE IF hi = lo + 1 THEN S1Body(v, ii, lo, n)
    ELSE LET m == (lo + hi) \div 2
             a == S1Row(v, lo, m, ii, n)
         IN  IF a.ub THEN a ELSE S1Row(a, m, hi, ii, n)

RECURSIVE S3Row(_, _, _, _, _)
S3Row(v, lo, hi, ii, n) ==
    IF hi <= lo THEN v
    ELSE IF hi = lo + 1 THEN S3Body(v, ii, lo, n)
    ELSE LET m == (lo + hi) \div 2
             a == S3Row(v, lo, m, ii, n)
         IN  IF a.ub THEN a ELSE S3Row(a, m, hi, ii, n)

Variants == {"v1", "v3", "s1", "s3"}

\* the next b executions of the body of the j loop (fewer at the end of the
\* row), in each of the variants of run, side by side; the run stops where
\* a cast is undefined
Advance(b, run) ==
    LET hi == IF j + b < size THEN j + b ELSE size
    IN  /\ pc = "loop" /\ i < size /\ ~AnyUB
        /\ v1' = IF "v1" \in run THEN V1Row(v1, j, hi, i, size) ELSE v1
        /\ v3' = IF "v3" \in run THEN V3Row(v3, j, hi, i, size) ELSE v3
        /\ s1' = IF "s1" \in run THEN S1Row(s1, j, hi, i, size) ELSE s1
        /\ s3' = IF "s3" \in run THEN S3Row(s3, j, hi, i, size) ELSE s3
        /\ IF hi < size THEN j' = hi /\ i' = i
                        ELSE j' = 0 /\ i' = i + 1
        /\ UNCHANGED <<size, k, pc, ret, tvars>>

\* one execution of the body of the j loop, for the pair (i, j)
PairStep == Advance(1, Variants)

\* the i loop ends: return result
Return ==
    /\ pc = "loop" /\ i >= size /\ ~AnyUB
    /\ pc' = "done"
    /\ ret' = [v1 |-> v1.result, v3 |-> v3.result, s1 |-> s1.result,
               s3 |-> S3Return(s3, size)]
    /\ UNCHANGED <<size, i, j, k, v1, v3, s1, s3, tvars>>

Next == PairStep \/ Return

Spec == Init /\ [][Next]_vars

\* ---- the reference workload, main(): perform_heavy_computation(500),
\* ---- explored RefBlock pairs at a time

InitRef == InitSerial({RefSize})

\* the variants run on the reference workload: the two per-pair ones
RefVariants == {"v1", "v3"}

BlockStep == Advance(RefBlock, RefVariants)

NextRef == BlockStep

SpecRef == InitRef /\ [][NextRef]_vars

\* ---- sources/patched_variants/variant_1 alone, one k at a time

InitK == InitSerial((0 - MaxNeg)..MaxSizeK)

\* one execution of the body of the k loop, for (i, j, k)
KStep ==
    /\ pc = "loop" /\ i < size /\ ~AnyUB
    /\ s1' = S1Step(s1, k, i, j, size + 1)
    /\ IF k + 1 < KCount THEN k' = k + 1 /\ j' = j /\ i' = i
       ELSE IF j + 1 < size THEN k' = 0 /\ j' = j + 1 /\ i' = i
       ELSE k' = 0 /\ j' = 0 /\ i' = i + 1
    /\ UNCHANGED <<size, pc, v1, v3, s3, ret, tvars>>

NextK == KStep \/ Return

SpecK == InitK /\ [][NextK]_vars

\* ---- patched_variants/variant_2: worker threads and the atomic merge

\* C++ a / b for b > 0: the quotient is truncated toward zero
CDiv(a, b) == IF a >= 0 THEN a \div b ELSE -((-a) \div b)

\* the body of the worker's j loop is the body of variant_1's, on local_result
V2Body(v, ii, jj, n) == V1Body(v, ii, jj, n)

\* for (j = lo; j < hi; ++j), left half first
RECURSIVE V2Row(_, _, _, _, _)
V2Row(v, lo, hi, ii, n) ==
    IF hi <= lo THEN v
    ELSE IF hi = lo + 1 THEN V2Body(v, ii, lo, n)
    ELSE LET m == (lo + hi) \div 2
             a == V2Row(v, lo, m, ii, n)
         IN  IF a.ub THEN a ELSE V2Row(a, m, hi, ii, n)

\* for (i = lo; i < hi; ++i) for (j = 0; j < size; ++j), left half first
RECURSIVE V2Rows(_, _, _, _)
V2Rows(v, lo, hi, n) ==
    IF hi <= lo THEN v
    ELSE IF hi = lo + 1 THEN V2Row(v, 0, n, lo, n)
    ELSE LET m == (lo + hi) \div 2
             a == V2Rows(v, lo, m, n)
         IN  IF a.ub THEN a ELSE V2Rows(a, m, hi, n)

\* worker(start, end) up to the merge: its finished local_result
WorkerLocal(st, en, n) == V2Rows(PairInit, st, en, n)

\* a plausible slip: the remainder is not handed out
ChunkEndNoRemainder(st, tt, n, W) == st + CDiv(n, W)

\* int end = start + chunk_size + (t < remainder ? 1 : 0);
ChunkEnd(st, tt, n, W) ==
    LET chunk_size == CDiv(n, W)
        remainder == CRem(n, W)
    IN  st + chunk_size + (IF tt < remainder THEN 1 ELSE 0)

InitT ==
    /\ size \in (0 - MaxNeg)..MaxSizeT
    /\ pc = "off"
    /\ SerialIdle
    /\ num_threads \in 0..MaxThreads
    /\ mpc = "entry"
    /\ ThreadsIdle

\* hardware_concurrency() != 0: go on to the spawn loop
Enter ==
    /\ mpc = "entry" /\ num_threads # 0
    /\ mpc' = "spawn" /\ t' = 0 /\ start' = 0
    /\ UNCHANGED <<size, svars, num_threads, depth, threads, wpc,
                   local_result, current, result, tret>>

\* hardware_concurrency() == 0: return perform_heavy_computation(size);
\* the call either takes a new frame or, compiled as a jump, reuses this one
Recurse ==
    /\ mpc = "entry" /\ num_threads = 0 /\ depth < MaxDepth
    /\ depth' \in {depth, depth + 1}
    /\ UNCHANGED <<size, svars, num_threads, mpc, t, start, threads, wpc,
                   local_result, current, result, tret>>

\* the same call with no room for another frame
StackOverflow ==
    /\ mpc = "entry" /\ num_threads = 0 /\ depth >= MaxDepth
    /\ mpc' = "crashed"
    /\ UNCHANGED <<size, svars, num_threads, depth, t, start, threads, wpc,
                   local_result, current, result, tret>>

\* one iteration of the loop that creates the threads
Spawn ==
    /\ mpc = "spawn" /\ t < num_threads
    /\ LET end == ChunkEnd(start, t, size, num_threads)
       IN  /\ threads' = Append(threads, [start |-> start, end |-> end])
           /\ start' = end
    /\ wpc' = [wpc EXCEPT ![t] = "run"]
    /\ t' = t + 1
    /\ UNCHANGED <<size, svars, num_threads, depth, mpc, local_result,
                   current, result, tret>>

SpawnDone ==
    /\ mpc = "spawn" /\ t >= num_threads
    /\ mpc' = "join" /\ t' = 0
    /\ UNCHANGED <<size, svars, num_threads, depth, start, threads, wpc,
                   local_result, current, result, tret>>

\* the worker's loops, which touch nothing shared
WorkerRun(w) ==
    /\ wpc[w] = "run"
    /\ LET v == WorkerLocal(threads[w + 1].start, threads[w + 1].end, size)
       IN  /\ ~v.ub
           /\ local_result' = [local_result EXCEPT ![w] = v.result]
    /\ wpc' = [wpc EXCEPT ![w] = "load"]
    /\ UNCHANGED <<size, svars, num_threads, depth, mpc, t, start, threads,
                   current, result, tret>>

\* double current = result.load();
WorkerLoad(w) ==
    /\ wpc[w] = "load"
    /\ current' = [current EXCEPT ![w] = result]
    /\ wpc' = [wpc EXCEPT ![w] = "cas"]
    /\ UNCHANGED <<size, svars, num_threads, depth, mpc, t, start, threads,
                   local_result, result, tret>>

\* the value compare_exchange_weak stores when it finds expected in result
CasStore(w) == AddDbl(current[w], local_result[w], size + 1)

\* a plausible slip: result.store(current + local_result), no comparison
WorkerStoreStale(w) ==
    /\ wpc[w] = "cas"
    /\ result' = CasStore(w)
    /\ wpc' = [wpc EXCEPT ![w] = "done"]
    /\ UNCHANGED <<size, svars, num_threads, depth, mpc, t, start, threads,
                   local_result, current, tret>>

\* compare_exchange_weak succeeds: result held current; the loop ends
WorkerCasOk(w) ==
    /\ wpc[w] = "cas"
    /\ result = current[w]
    /\ result' = CasStore(w)
    /\ wpc' = [wpc EXCEPT ![w] = "done"]
    /\ UNCHANGED <<size, svars, num_threads, depth, mpc, t, start, threads,
                   local_result, current, tret>>

\* compare_exchange_weak fails, because result changed or spuriously:
\* current takes the value of result and the loop goes round
WorkerCasFail(w) ==
    /\ wpc[w] = "cas"
    /\ current' = [current EXCEPT ![w] = result]
    /\ UNCHANGED <<size, svars, num_threads, depth, mpc, t, start, threads,
                   wpc, local_result, result, tret>>

\* th.join() for the next thread
Join ==
    /\ mpc = "join" /\ t < num_threads
    /\ wpc[t] = "done"
    /\ t' = t + 1
    /\ UNCHANGED <<size, svars, num_threads, depth, mpc, start, threads, wpc,
                   local_result, current, result, tret>>

\* return result.load();
ReturnT ==
    /\ mpc = "join" /\ t >= num_threads
    /\ mpc' = "done"
    /\ tret' = result
    /\ UNCHANGED <<size, svars, num_threads, depth, t, start, threads, wpc,
                   local_result, current, result>>

NextT ==
    \/ Enter \/ Recurse \/ StackOverflow
    \/ Spawn \/ SpawnDone \/ Join \/ ReturnT
    \/ \E w \in Workers :
          WorkerRun(w) \/ WorkerLoad(w) \/ WorkerCasOk(w) \/ WorkerCasFail(w)

SpecT == InitT /\ [][NextT]_vars

\* ======================= properties =======================

Whole(n) == [w |-> n, f |-> 0]

\* the pair (a, b) has been run by the loops
Passed(a, b) == pc = "done" \/ i > a \/ (i = a /\ j > b)

\* C1 as stated: perform_heavy_computation(2), closed form and materialized
\* k loop alike, fires no correction at any of its four pairs and returns
\* exactly 1650.0
C1_NoCorrection1650 ==
    size = 2 =>
        /\ v1.fired = {} /\ v3.fired = {}
        /\ pc = "done" => ret.v1 = Whole(1650) /\ ret.v3 = Whole(1650)

\* C1 amended: perform_heavy_computation(2), closed form and materialized
\* k loop alike, fires the correction exactly once, at the pair (0,0) where
\* the accumulator is 0, at none of (0,1), (1,0), (1,1), and returns 1645.0
C1_FiresAt00Returns1645 ==
    size = 2 =>
        /\ v1.fired = IF Passed(0, 0) THEN {<<0, 0>>} ELSE {}
        /\ v3.fired = IF Passed(0, 0) THEN {<<0, 0>>} ELSE {}
        /\ pc = "done" => ret.v1 = Whole(1645) /\ ret.v3 = Whole(1645)

C1_Witness == size = 2 /\ pc = "done" /\ <<0, 0>> \in v3.fired

Len0(th) == th.end - th.start

\* C2: for size >= 1 and any worker count W >= 1 the ranges given to the
\* threads are contiguous from 0 to size, never overlap, cover every i of
\* [0, size) exactly once, differ in length by at most 1, and the first
\* size % W of them are the longer ones
C2_PartitionComplete ==
    (size >= 1 /\ mpc \in {"join", "done"}) =>
        /\ Len(threads) = num_threads
        /\ threads[1].start = 0
        /\ threads[num_threads].end = size
        /\ \A a \in 1..num_threads : threads[a].start <= threads[a].end
        /\ \A a \in 1..(num_threads - 1) : threads[a].end = threads[a + 1].start
        /\ \A x \in 0..(size - 1) :
              Cardinality({a \in 1..num_threads :
                              threads[a].start <= x /\ x < threads[a].end}) = 1
        /\ \A a, b \in 1..num_threads :
              /\ Len0(threads[a]) - Len0(threads[b]) <= 1
              /\ (a <= b) => Len0(threads[a]) >= Len0(threads[b])
        /\ Cardinality({a \in 1..num_threads :
                           \E b \in 1..num_threads :
                              Len0(threads[a]) > Len0(threads[b])})
              = size % num_threads

C2_Witness ==
    /\ mpc = "join" /\ size >= 1
    /\ \E a, b \in 1..num_threads : Len0(threads[a]) > Len0(threads[b])
    /\ \E a \in 1..num_threads : Len0(threads[a]) = 0

\* C3 as stated: with hardware_concurrency() == 0 the call does not fail
\* and what it returns is the single-worker per-pair value
C3_Fallback ==
    num_threads = 0 =>
        /\ mpc # "crashed"
        /\ mpc = "done" => tret = WorkerLocal(0, size, size).result

RECURSIVE SumLocal(_)
SumLocal(S) ==
    IF S = {} THEN Zero
    ELSE LET w == CHOOSE x \in S : TRUE
         IN  AddDbl(SumLocal(S \ {w}), local_result[w], size + 1)

\* C4: whatever the interleaving of the workers' load / compare-exchange
\* loops, the shared result is at every moment the sum of the local_result
\* of exactly the workers that have finished their merge, and the value
\* returned after the joins is the sum of all workers' local_result, with
\* no correction applied by the merge
C4_NoLostUpdate ==
    /\ mpc \in {"spawn", "join", "done"} =>
          result = SumLocal({w \in Workers : wpc[w] = "done"})
    /\ mpc = "done" =>
          /\ tret = SumLocal({w \in Workers : w < num_threads})
          /\ \A w \in Workers : w < num_threads =>
                local_result[w] =
                    WorkerLocal(threads[w + 1].start, threads[w + 1].end,
                                size).result

C4_Witness ==
    /\ mpc = "done" /\ num_threads >= 2
    /\ \A w \in Workers : w < num_threads => local_result[w] # Zero
    /\ tret # Zero

\* C5: for every size of the bounded set, the variant with the materialized
\* k loop and the variant with the constant 4950 add the same contribution
\* at every pair, fire the correction at the same pairs, hold the same
\* accumulator after every pair and return the same value
C5_ClosedFormEquivalence ==
    /\ v1.contrib = v3.contrib
    /\ v1.chk = v3.chk
    /\ v1.fired = v3.fired
    /\ v1.result = v3.result
    /\ pc = "done" => ret.v1 = ret.v3

C5_Witness == pc = "done" /\ size >= 3 /\ v3.contrib # Zero /\ ret.v3 # Zero

\* C6: for size = 5 the per-k check fires inside the pair (1,1), where the
\* per-pair check does not fire, and the two variants return different
\* totals
C6_ScopeSensitive ==
    size = 5 =>
        /\ Passed(1, 1) => <<1, 1>> \in s1.fired /\ <<1, 1>> \notin v3.fired
        /\ pc = "done" => ret.s1 # ret.v3

C6_Witness == size = 5 /\ pc = "done" /\ <<1, 1>> \in s1.fired

\* the checks the running-accumulator variants made last
LastChecks ==
    {v1.chk[n] : n \in DOMAIN v1.chk} \cup {v3.chk[n] : n \in DOMAIN v3.chk}
        \cup {s1.chk[n] : n \in DOMAIN s1.chk}

\* C7 as stated: a check fires exactly when floor(A) mod 100000 == 0
C7_FiresIffFloorDivisible ==
    \A o \in LastChecks : o.fire <=> (o.A.w % Modulus = 0)

\* the value of A rounded toward zero is a multiple of 100000
TruncDivisible(a) ==
    \/ a.w >= 0 /\ a.w % Modulus = 0
    \/ a.w < 0 /\ a.f = 0 /\ a.w % Modulus = 0
    \/ a.w < 0 /\ a.f > 0 /\ (a.w + 1) % Modulus = 0

\* C7 amended: a check fires exactly when A rounded toward zero is a
\* multiple of 100000 (so it fires for A in (-1, 0), where floor(A) = -1);
\* when it fires A becomes A - 5.0, otherwise A is kept; the decision is a
\* function of A alone
C7_FiresIffTruncDivisible ==
    /\ \A o \in LastChecks : o.fire <=> TruncDivisible(o.A)
    /\ \A n \in DOMAIN s1.chk :
          s1.result = IF s1.chk[n].fire
                      THEN [w |-> s1.chk[n].A.w - 5, f |-> s1.chk[n].A.f]
                      ELSE s1.chk[n].A

C7_Witness ==
    \E n \in DOMAIN s1.chk :
        /\ s1.chk[n].A.w = -1 /\ s1.chk[n].A.f > 0
        /\ s1.chk[n].fire

\* C8 as stated: a call with size <= 0 never completes normally
C8_InvalidDomainFailsFast ==
    size <= 0 => pc # "done" /\ mpc # "done"

\* C9 as stated: the variant that checks at k == 99 fires at the same pairs
\* as the per-pair variant and returns the same total
C9_InPlaceCorrection ==
    /\ s3.fired = v3.fired
    /\ pc = "done" => ret.s3 = ret.v3

\* C10 as stated: during perform_heavy_computation(500) the accumulator is
\* within the range of int at every check of the running-accumulator
\* variants (here the two per-pair ones)
C10_CastInRange == ~v1.ub /\ ~v3.ub

====
